---- MODULE Spec2Model ----
(***************************************************************************)
(* Coverage aggregation of the SIMET / UNICEF connectivity dashboards.     *)
(*                                                                         *)
(*   src/conectividade.py  ("Power BI" variant): carregar_lista,           *)
(*                          carregar_api, processar_powerbi, faixa         *)
(*   src/Conectividade.py  (CSV variant): atualizar_api, carregar_cache,   *)
(*                          the normalisation / drop_duplicates / merge /  *)
(*                          groupby block                                  *)
(*                                                                         *)
(* Text values (labels, municipality codes) are sequences of one-character *)
(* strings, so that strip, upper and substring search are computed.        *)
(***************************************************************************)
EXTENDS Integers, Sequences, FiniteSets, TLC

VARIABLES
    adesoes,            \* content of the registry file (rows, in file order)
    df_api,             \* the raw dataset handed to the aggregation
    df_lista,           \* the loaded registry
    df_mun,             \* conectividade.py: per-municipality table
    base,               \* conectividade.py: eligible rows
    df_final,           \* Conectividade.py: merged rows
    temp,               \* Conectividade.py: per-municipality table
    stage,              \* position of the aggregation script
    Qtd_Escolas,        \* one df_mun row handed to faixa: denominator
    Qtd_Escolas_Ativas, \* numerator
    Faixa_Cobertura,    \* label returned by faixa
    total_escolas_unicas, \* conectividade.py: distinct schools of the raw dataset
    cache_file,         \* the snapshot file: [exists, data], data a sequence of blocks
    pc,                 \* per session: position of its script run
    forcar,             \* per session: the button's value in this run
    tries,              \* per session: completed iterations of the retry loop
    df,                 \* per session: the DataFrame built from the response
    wpos,               \* per session: blocks written by the write in progress
    ret,                \* per session: what the load returned or raised
    requests,           \* per session: requests.get calls issued by this call
    prior,              \* per session: the snapshot file when the call began
    fetched,            \* datasets some request returned in full
    wfail,              \* some write to the snapshot has failed
    memo,               \* Conectividade.py: st.cache_data entry of carregar_cache
    runs,               \* script runs started
    api_atualizada      \* Conectividade.py: st.session_state["api_atualizada"]

pipeVars  == <<adesoes, df_api, df_lista, df_mun, base, df_final, temp, stage,
               total_escolas_unicas>>
faixaVars == <<Qtd_Escolas, Qtd_Escolas_Ativas, Faixa_Cobertura>>
cacheVars == <<cache_file, pc, forcar, tries, df, wpos, ret, requests, prior, fetched,
               wfail, memo, runs, api_atualizada>>
vars      == <<pipeVars, faixaVars, cacheVars>>
\* what conectividade.py's carregar_api never touches
restVars  == <<memo, api_atualizada, pipeVars, faixaVars>>

-----------------------------------------------------------------------------
(* Bounds of the model *)

MaxRows == 2
MaxEscolas == 10
NumPayloads == 2
BlocksPerFile == 2
MaxRuns == 2

SeqsUpTo(S, n) == UNION {[1..k -> S] : k \in 0..n}

-----------------------------------------------------------------------------
(* Text helpers *)

LowerLetters == <<"a","c","d","e","i","l","m","n","o","p","r","s","t","u","v","y">>
UpperLetters == <<"A","C","D","E","I","L","M","N","O","P","R","S","T","U","V","Y">>

UpperChar(c) ==
    IF \E i \in DOMAIN LowerLetters : LowerLetters[i] = c
    THEN UpperLetters[CHOOSE i \in DOMAIN LowerLetters : LowerLetters[i] = c]
    ELSE c

\* str.upper()
Upper(s) == [i \in DOMAIN s |-> UpperChar(s[i])]

RECURSIVE LStrip(_)
LStrip(s) == IF s # <<>> /\ Head(s) = " " THEN LStrip(Tail(s)) ELSE s

RECURSIVE RStrip(_)
RStrip(s) == IF s # <<>> /\ s[Len(s)] = " " THEN RStrip(SubSeq(s, 1, Len(s) - 1)) ELSE s

\* str.strip()
Strip(s) == RStrip(LStrip(s))

\* str.contains(pat), pat a literal
Contains(s, pat) ==
    \E i \in 0..(Len(s) - Len(pat)) : SubSeq(s, i + 1, i + Len(pat)) = pat

Digits == <<"0","1","2","3","4","5","6","7","8","9">>
IsDigit(c) == \E i \in DOMAIN Digits : Digits[i] = c
DigitVal(c) == (CHOOSE i \in DOMAIN Digits : Digits[i] = c) - 1

RECURSIVE DigitsVal(_)
DigitsVal(s) ==
    IF s = <<>> THEN 0 ELSE 10 * DigitsVal(SubSeq(s, 1, Len(s) - 1)) + DigitVal(s[Len(s)])

\* the missing value of a numeric column (no code is negative)
NaN == -1

\* pd.to_numeric(x, errors="coerce") of one cell
ToNumeric(s) ==
    IF s # <<>> /\ \A i \in DOMAIN s : IsDigit(s[i]) THEN DigitsVal(s) ELSE NaN

\* The rows of s at the indices I, in the order of s (boolean-mask selection)
SubSeqBy(s, I) ==
    LET n == Cardinality(I)
        at == [k \in 1..n |-> CHOOSE i \in I : Cardinality({j \in I : j < i}) = k - 1]
    IN  [k \in 1..n |-> s[at[k]]]

-----------------------------------------------------------------------------
(* Labels found in the source and in the raw data *)

Municipal      == <<"M","u","n","i","c","i","p","a","l">>
Intermunicipal == <<"I","n","t","e","r","m","u","n","i","c","i","p","a","l">>
Estadual       == <<"E","s","t","a","d","u","a","l">>
Sim            == <<"S","i","m">>
Nao            == <<"N","a","o">>
yes            == <<"y","e","s">>
ativo          == <<"a","t","i","v","o">>
inativo        == <<"i","n","a","t","i","v","o">>
Installed      == <<"I","n","s","t","a","l","l","e","d">>

MUNICIPAL == <<"M","U","N","I","C","I","P","A","L">>
SIM       == <<"S","I","M">>
ATIVO     == <<"A","T","I","V","O">>
INSTALADO == <<"I","N","S","T","A","L","A","D","O">>
INSTALLED == <<"I","N","S","T","A","L","L","E","D">>
ACTIVE    == <<"A","C","T","I","V","E">>
TRUE_     == <<"T","R","U","E">>
YES       == <<"Y","E","S">>
Y         == <<"Y">>

-----------------------------------------------------------------------------
(* conectividade.py: faixa.  p = Qtd_Escolas_Ativas / Qtd_Escolas is kept  *)
(* as the pair of counts; the float comparisons p >= 0.8 etc. agree with   *)
(* the exact ones for counts of this size (division is correctly rounded). *)

Perc(ativas, escolas) == [num |-> ativas, den |-> escolas]

\* p >= n/10
PercGe(p, n) == 10 * p.num >= n * p.den

faixa_strict(p) ==
    IF p.num = p.den THEN "100%"
    ELSE IF PercGe(p, 8) THEN "80% - 99%"
    ELSE IF 10 * p.num > 7 * p.den THEN "70% - 79%"
    ELSE IF PercGe(p, 5) THEN "50% - 69%"
    ELSE IF p.num > 0 THEN "<50%"
    ELSE "0%"

faixa(p) ==
    IF p.num = p.den THEN "100%"
    ELSE IF PercGe(p, 8) THEN "80% - 99%"
    ELSE IF PercGe(p, 7) THEN "70% - 79%"
    ELSE IF PercGe(p, 5) THEN "50% - 69%"
    ELSE IF p.num > 0 THEN "<50%"
    ELSE "0%"

-----------------------------------------------------------------------------
(* conectividade.py: carregar_lista and processar_powerbi *)

NoUF == "NaN"

\* df[COL_MUN].astype(str).str.strip()
StripMun(tab) == [i \in DOMAIN tab |-> [tab[i] EXCEPT !.co_municipio = Strip(@)]]

\* drop_duplicates(subset=[COL_MUN]): the first row of each key is kept
DropDuplicatesMun(tab) ==
    SubSeqBy(tab, {i \in DOMAIN tab :
                    \A j \in 1..(i - 1) : tab[j].co_municipio # tab[i].co_municipio})

carregar_lista(xlsx) == DropDuplicatesMun(StripMun(xlsx))

\* the rows of df that are Municipal with internet "Sim"
BaseMunicipalSim(tab) ==
    SubSeqBy(tab, {i \in DOMAIN tab :
                    tab[i].tp_dependencia = Municipal /\ tab[i].in_internet = Sim})

IsinLista_None(b, lista) == b

\* base[base["co_municipio"].isin(df_lista["co_municipio"])]
IsinLista(b, lista) ==
    SubSeqBy(b, {i \in DOMAIN b :
                   \E k \in DOMAIN lista : lista[k].co_municipio = b[i].co_municipio})

\* groupby("co_municipio")["co_entidade"].nunique(): a function on the groups
NUniqueEntidade(b) ==
    [m \in {b[i].co_municipio : i \in DOMAIN b} |->
        Cardinality({b[i].co_entidade : i \in {k \in DOMAIN b : b[k].co_municipio = m}})]

StatusAtivo(b) == SubSeqBy(b, {i \in DOMAIN b : b[i].status = ativo})

\* merge(df_lista[["co_municipio","UF","Município"]], how="left") of one row
MergeLista(row, lista) ==
    LET hit == {k \in DOMAIN lista : lista[k].co_municipio = row.co_municipio}
    IN  IF hit = {}
        THEN {[co_municipio |-> row.co_municipio, Qtd_Escolas |-> row.Qtd_Escolas,
               Qtd_Escolas_Ativas |-> row.Qtd_Escolas_Ativas,
               Faixa_Cobertura |-> row.Faixa_Cobertura, UF |-> NoUF, Municipio |-> NoUF]}
        ELSE {[co_municipio |-> row.co_municipio, Qtd_Escolas |-> row.Qtd_Escolas,
               Qtd_Escolas_Ativas |-> row.Qtd_Escolas_Ativas,
               Faixa_Cobertura |-> row.Faixa_Cobertura,
               UF |-> lista[k].UF, Municipio |-> lista[k].Municipio] : k \in hit}

\* processar_powerbi: the record of what it returns (df_mun as the set of its rows)
processar_powerbi(api, lista) ==
    LET api1 == StripMun(api)
        b == IsinLista(BaseMunicipalSim(api1), lista)
        qtd_escolas == NUniqueEntidade(b)
        qtd_escolas_ativas == NUniqueEntidade(StatusAtivo(b))
        \* left merge + fillna(0)
        ativas(m) == IF m \in DOMAIN qtd_escolas_ativas THEN qtd_escolas_ativas[m] ELSE 0
        mun == {[co_municipio |-> m, Qtd_Escolas |-> qtd_escolas[m],
                 Qtd_Escolas_Ativas |-> ativas(m),
                 Faixa_Cobertura |-> faixa(Perc(ativas(m), qtd_escolas[m]))]
                : m \in DOMAIN qtd_escolas}
    IN  [df_api |-> api1,
         df_mun |-> UNION {MergeLista(r, lista) : r \in mun},
         base |-> b,
         total_escolas_unicas |-> Cardinality({api1[i].co_entidade : i \in DOMAIN api1})]

-----------------------------------------------------------------------------
(* Inputs of the conectividade.py aggregation *)

Entidades == {11, 12}

PBIRows ==
    [co_municipio : {<<" ","1">>, <<"2">>}, co_entidade : Entidades,
     tp_dependencia : {Municipal, Estadual}, in_internet : {Sim, Nao},
     status : {ativo, inativo}]

ListaRow(m, uf, nome) == [co_municipio |-> m, UF |-> uf, Municipio |-> nome]

\* contents of the "Lista única" sheet
ListaFiles ==
    { <<>>,
      <<ListaRow(<<"1">>, "SP", "A")>>,
      <<ListaRow(<<"2"," ">>, "RJ", "B")>>,
      <<ListaRow(<<"1"," ">>, "SP", "A"), ListaRow(<<"1">>, "SP", "A2"),
        ListaRow(<<"2">>, "RJ", "B")>>,
      <<ListaRow(<<"3">>, "MG", "C")>> }

Sessions == {1, 2}

NoFile == [exists |-> FALSE, data |-> <<>>]
NoRet == [kind |-> "none", df |-> <<>>]

CacheIdle ==
    /\ cache_file = NoFile
    /\ pc = [s \in Sessions |-> "off"]
    /\ forcar = [s \in Sessions |-> FALSE]
    /\ tries = [s \in Sessions |-> 0]
    /\ df = [s \in Sessions |-> <<>>]
    /\ wpos = [s \in Sessions |-> 0]
    /\ ret = [s \in Sessions |-> NoRet]
    /\ requests = [s \in Sessions |-> 0]
    /\ prior = [s \in Sessions |-> NoFile]
    /\ fetched = {}
    /\ wfail = FALSE
    /\ memo = <<>>
    /\ runs = 0
    /\ api_atualizada = [s \in Sessions |-> FALSE]

FaixaIdle == Qtd_Escolas = 0 /\ Qtd_Escolas_Ativas = 0 /\ Faixa_Cobertura = "none"

PipeIdle ==
    /\ adesoes = <<>> /\ df_api = <<>> /\ df_lista = <<>> /\ df_mun = {}
    /\ base = <<>> /\ df_final = <<>> /\ temp = {} /\ stage = "off"
    /\ total_escolas_unicas = 0

InitPBI ==
    /\ adesoes \in ListaFiles
    /\ df_api \in SeqsUpTo(PBIRows, MaxRows)
    /\ df_lista = <<>> /\ df_mun = {} /\ base = <<>> /\ df_final = <<>> /\ temp = {}
    /\ total_escolas_unicas = 0
    /\ stage = "start"
    /\ FaixaIdle
    /\ CacheIdle

\* df_lista = carregar_lista()
CarregarLista ==
    /\ stage = "start"
    /\ df_lista' = carregar_lista(adesoes)
    /\ stage' = "lista"
    /\ UNCHANGED <<adesoes, df_api, df_mun, base, df_final, temp, total_escolas_unicas,
                   faixaVars, cacheVars>>

\* df_mun, base, total_escolas_unicas = processar_powerbi(df_api, df_lista)
ProcessarPowerBI ==
    /\ stage = "lista"
    /\ LET r == processar_powerbi(df_api, df_lista)
       IN  /\ df_api' = r.df_api
           /\ df_mun' = r.df_mun
           /\ base' = r.base
           /\ total_escolas_unicas' = r.total_escolas_unicas
    /\ stage' = "done"
    /\ UNCHANGED <<adesoes, df_lista, df_final, temp, faixaVars, cacheVars>>

NextPBI == CarregarLista \/ ProcessarPowerBI

SpecPBI == InitPBI /\ [][NextPBI]_vars

-----------------------------------------------------------------------------
(* Conectividade.py: carregar_lista_unica and the processing block *)

\* pd.to_numeric(df["co_municipio"], errors="coerce")
NumericMun(tab) == [i \in DOMAIN tab |-> [tab[i] EXCEPT !.co_municipio = ToNumeric(@)]]

carregar_lista_unica(csv) == NumericMun(csv)

\* status_norm.replace({...})
ReplaceStatus(v) == IF v \in {INSTALADO, INSTALLED, ACTIVE, TRUE_} THEN ATIVO ELSE v

\* in_internet_norm.replace({...})
ReplaceInternet(v) == IF v \in {YES, Y, TRUE_} THEN SIM ELSE v

\* the three *_norm columns of one row, co_municipio already numeric
NormRow(r) ==
    [co_municipio |-> r.co_municipio, co_entidade |-> r.co_entidade,
     tp_dependencia |-> r.tp_dependencia, in_internet |-> r.in_internet,
     status |-> r.status,
     tp_dependencia_norm |-> Upper(r.tp_dependencia),
     in_internet_norm |-> ReplaceInternet(Upper(r.in_internet)),
     status_norm |-> ReplaceStatus(Upper(r.status))]

Normalizado(api) == LET n == NumericMun(api) IN [i \in DOMAIN n |-> NormRow(n[i])]

\* df_api[tp_dependencia_norm.str.contains("MUNICIPAL") & (in_internet_norm == "SIM")]
Filtrado(tab) ==
    SubSeqBy(tab, {i \in DOMAIN tab :
                    /\ Contains(tab[i].tp_dependencia_norm, MUNICIPAL)
                    /\ tab[i].in_internet_norm = SIM})

\* co_municipio.astype(str) + "_" + co_entidade.astype(str)
id_escola_unica(r) == <<r.co_municipio, r.co_entidade>>

\* drop_duplicates(subset="id_escola_unica"): the first row of each school is kept
Unicas(tab) ==
    SubSeqBy(tab, {i \in DOMAIN tab :
                    \A j \in 1..(i - 1) : id_escola_unica(tab[j]) # id_escola_unica(tab[i])})

\* df_lista[["UF","Município","co_municipio","Regiao"]].drop_duplicates(): whole rows
ListaRed(lista) ==
    SubSeqBy(lista, {i \in DOMAIN lista : \A j \in 1..(i - 1) : lista[j] # lista[i]})

FinalRow(r, l) ==
    [co_municipio |-> r.co_municipio, co_entidade |-> r.co_entidade,
     tp_dependencia |-> r.tp_dependencia, in_internet |-> r.in_internet,
     status |-> r.status, status_norm |-> r.status_norm,
     id_escola_unica |-> id_escola_unica(r),
     UF |-> l.UF, Municipio |-> l.Municipio, Regiao |-> l.Regiao]

\* df_unicas.merge(df_lista_red, on="co_municipio", how="inner")
RECURSIVE MergeInner(_, _)
MergeInner(left, right) ==
    IF left = <<>> THEN <<>>
    ELSE LET r == Head(left)
             hit == SubSeqBy(right, {k \in DOMAIN right :
                                       right[k].co_municipio = r.co_municipio})
         IN  [k \in DOMAIN hit |-> FinalRow(r, hit[k])] \o MergeInner(Tail(left), right)

\* df_final.groupby(["UF","Município","co_municipio"]).agg(...): groups with a
\* missing key are dropped; escolas_ativas counts the rows of the group
Agrupado(final) ==
    LET keys == {<<final[i].UF, final[i].Municipio, final[i].co_municipio>> :
                    i \in {k \in DOMAIN final : final[k].co_municipio # NaN}}
        rowsOf(g) == {i \in DOMAIN final :
                        <<final[i].UF, final[i].Municipio, final[i].co_municipio>> = g}
    IN  {[UF |-> g[1], Municipio |-> g[2], co_municipio |-> g[3],
          total_escolas |-> Cardinality({final[i].id_escola_unica : i \in rowsOf(g)}),
          escolas_ativas |-> Cardinality({i \in rowsOf(g) : final[i].status_norm = ATIVO})]
         : g \in keys}

-----------------------------------------------------------------------------
(* Inputs of the Conectividade.py aggregation *)

ConRows ==
    [co_municipio : {<<"1">>, <<"2">>}, co_entidade : Entidades,
     tp_dependencia : {Municipal, Intermunicipal, Estadual},
     in_internet : {Sim, yes, Nao},
     status : {ativo, Installed, inativo}]

AdesaoRow(uf, nome, m, regiao) ==
    [UF |-> uf, Municipio |-> nome, co_municipio |-> m, Regiao |-> regiao]

\* contents of bases/adesoes.csv
AdesoesFiles ==
    { <<AdesaoRow("SP", "A", <<"1">>, "Sudeste")>>,
      <<AdesaoRow("SP", "A", <<"0","1">>, "Sudeste"), AdesaoRow("SP", "A", <<"1">>, "Sul")>>,
      <<AdesaoRow("SP", "A", <<"1">>, "Sudeste"), AdesaoRow("SP", "A", <<"1">>, "Sudeste"),
        AdesaoRow("RJ", "B", <<"2">>, "Sudeste")>>,
      <<AdesaoRow("MG", "C", <<"x">>, "Sudeste")>> }

InitCon ==
    /\ adesoes \in AdesoesFiles
    /\ df_api \in SeqsUpTo(ConRows, MaxRows)
    /\ df_lista = <<>> /\ df_mun = {} /\ base = <<>> /\ df_final = <<>> /\ temp = {}
    /\ total_escolas_unicas = 0
    /\ stage = "start"
    /\ FaixaIdle
    /\ CacheIdle

\* df_lista = carregar_lista_unica()
CarregarListaUnica ==
    /\ stage = "start"
    /\ df_lista' = carregar_lista_unica(adesoes)
    /\ stage' = "lista"
    /\ UNCHANGED <<adesoes, df_api, df_mun, base, df_final, temp, total_escolas_unicas,
                   faixaVars, cacheVars>>

\* the processing block, lines 127-169
ProcessarConectividade ==
    /\ stage = "lista"
    /\ LET norm == Normalizado(df_api)
           final == MergeInner(Unicas(Filtrado(norm)), ListaRed(df_lista))
       IN  /\ df_api' = norm
           /\ df_final' = final
           /\ temp' = Agrupado(final)
    /\ stage' = "done"
    /\ UNCHANGED <<adesoes, df_lista, df_mun, base, total_escolas_unicas, faixaVars, cacheVars>>

NextCon == CarregarListaUnica \/ ProcessarConectividade

SpecCon == InitCon /\ [][NextCon]_vars

-----------------------------------------------------------------------------
(* faixa applied to one row of df_mun *)

InitFaixa ==
    /\ Qtd_Escolas \in 1..MaxEscolas
    /\ Qtd_Escolas_Ativas \in 0..Qtd_Escolas
    /\ Faixa_Cobertura = "none"
    /\ PipeIdle
    /\ CacheIdle

\* df_mun["Faixa_Cobertura"] = df_mun["Perc_Escolas_Ativas"].apply(faixa)
ApplyFaixa ==
    /\ Faixa_Cobertura = "none"
    /\ Faixa_Cobertura' = faixa(Perc(Qtd_Escolas_Ativas, Qtd_Escolas))
    /\ UNCHANGED <<Qtd_Escolas, Qtd_Escolas_Ativas, pipeVars, cacheVars>>

NextFaixa == ApplyFaixa

SpecFaixa == InitFaixa /\ [][NextFaixa]_vars

-----------------------------------------------------------------------------
(* The snapshot file and the datasets the API returns.  A dataset is a     *)
(* sequence of blocks (row groups / lines); a writer opens the file, which *)
(* truncates it, and writes its blocks one after the other at its offset.  *)

RETRIES == 3

Payload(d) == [k \in 1..BlocksPerFile |-> <<d, k>>]
Payloads == {Payload(d) : d \in 1..NumPayloads}

Hole == <<0, 0>>

\* the file after the block is written at offset pos of a file holding data
WriteAt(data, pos, block) ==
    LET n == IF Len(data) > pos THEN Len(data) ELSE pos
    IN  [i \in 1..n |-> IF i = pos THEN block
                        ELSE IF i <= Len(data) THEN data[i] ELSE Hole]

Snapshot(data) == [exists |-> TRUE, data |-> data]

RetDf(d) == [kind |-> "df", df |-> d]
RetErr(k) == [kind |-> k, df |-> <<>>]

-----------------------------------------------------------------------------
(* conectividade.py: one script run per session thread, lines 182-185 *)

InitApi ==
    /\ cache_file \in {NoFile, Snapshot(Payload(1))}
    /\ fetched = IF cache_file.exists THEN {cache_file.data} ELSE {}
    /\ pc = [s \in Sessions |-> "idle"]
    /\ forcar = [s \in Sessions |-> FALSE]
    /\ tries = [s \in Sessions |-> 0]
    /\ df = [s \in Sessions |-> <<>>]
    /\ wpos = [s \in Sessions |-> 0]
    /\ ret = [s \in Sessions |-> NoRet]
    /\ requests = [s \in Sessions |-> 0]
    /\ prior = [s \in Sessions |-> NoFile]
    /\ wfail = FALSE
    /\ memo = <<>>
    /\ runs = 0
    /\ api_atualizada = [s \in Sessions |-> FALSE]
    /\ PipeIdle
    /\ FaixaIdle

\* atualizar = st.button(...); carregar_api(atualizar) evaluates line 90
Call(s) ==
    /\ pc[s] = "idle"
    /\ runs < MaxRuns
    /\ runs' = runs + 1
    /\ \E atualizar \in BOOLEAN :
          /\ forcar' = [forcar EXCEPT ![s] = atualizar]
          /\ pc' = [pc EXCEPT ![s] = IF cache_file.exists /\ ~atualizar
                                     THEN "read" ELSE "get"]
    /\ prior' = [prior EXCEPT ![s] = cache_file]
    /\ UNCHANGED <<cache_file, tries, df, wpos, ret, requests, fetched, wfail, restVars>>

\* return pd.read_parquet(CACHE_API): a file that is not a whole dataset has no
\* valid footer and the read raises; blocks of two writers at full length may
\* also be handed back as they are
ReadParquet(s) ==
    /\ pc[s] = "read"
    /\ \/ /\ cache_file.data \in Payloads
          /\ ret' = [ret EXCEPT ![s] = RetDf(cache_file.data)]
          /\ pc' = [pc EXCEPT ![s] = "returned"]
       \/ /\ cache_file.data \notin Payloads
          /\ ret' = [ret EXCEPT ![s] = RetErr("ReadError")]
          /\ pc' = [pc EXCEPT ![s] = "raised"]
       \/ /\ cache_file.data \notin Payloads
          /\ Len(cache_file.data) = BlocksPerFile
          /\ \A i \in DOMAIN cache_file.data : cache_file.data[i] # Hole
          /\ ret' = [ret EXCEPT ![s] = RetDf(cache_file.data)]
          /\ pc' = [pc EXCEPT ![s] = "returned"]
    /\ UNCHANGED <<cache_file, forcar, tries, df, wpos, requests, prior, fetched, wfail,
                   runs, restVars>>

Except_NoCount(s) ==
    /\ tries' = tries
    /\ pc' = [pc EXCEPT ![s] = "get"]
    /\ ret' = ret

\* except Exception: time.sleep(3); then the next iteration, or line 103
Except(s) ==
    /\ tries' = [tries EXCEPT ![s] = @ + 1]
    /\ IF tries[s] + 1 = RETRIES
       THEN /\ pc' = [pc EXCEPT ![s] = "raised"]
            /\ ret' = [ret EXCEPT ![s] = RetErr("RuntimeError")]
       ELSE /\ pc' = [pc EXCEPT ![s] = "get"]
            /\ ret' = ret

\* lines 95-97: the request, raise_for_status, r.json(), pd.DataFrame
Get(s) ==
    /\ pc[s] = "get"
    /\ requests' = [requests EXCEPT ![s] = @ + 1]
    /\ \/ \E d \in 1..NumPayloads :
             /\ df' = [df EXCEPT ![s] = Payload(d)]
             /\ fetched' = fetched \cup {Payload(d)}
             /\ pc' = [pc EXCEPT ![s] = "open"]
             /\ UNCHANGED <<tries, ret>>
       \/ /\ Except(s)
          /\ UNCHANGED <<df, fetched>>
    /\ UNCHANGED <<cache_file, forcar, wpos, prior, wfail, runs, restVars>>

\* df.to_parquet(CACHE_API): the table is converted, then the file is opened
Open(s) ==
    /\ pc[s] = "open"
    /\ \/ /\ cache_file' = Snapshot(<<>>)
          /\ wpos' = [wpos EXCEPT ![s] = 0]
          /\ pc' = [pc EXCEPT ![s] = "write"]
          /\ UNCHANGED <<tries, ret, wfail>>
       \/ /\ Except(s)
          /\ wfail' = TRUE
          /\ UNCHANGED <<cache_file, wpos>>
    /\ UNCHANGED <<forcar, df, requests, prior, fetched, runs, restVars>>

\* one block of the write; after the last one, return df (line 99)
WriteBlock(s) ==
    /\ pc[s] = "write"
    /\ cache_file' = Snapshot(WriteAt(cache_file.data, wpos[s] + 1, df[s][wpos[s] + 1]))
    /\ wpos' = [wpos EXCEPT ![s] = @ + 1]
    /\ IF wpos[s] + 1 = BlocksPerFile
       THEN /\ pc' = [pc EXCEPT ![s] = "returned"]
            /\ ret' = [ret EXCEPT ![s] = RetDf(df[s])]
       ELSE UNCHANGED <<pc, ret>>
    /\ UNCHANGED <<forcar, tries, df, requests, prior, fetched, wfail, runs, restVars>>

\* the write raises part way (I/O error); the file keeps what was written
WriteFail(s) ==
    /\ pc[s] = "write"
    /\ Except(s)
    /\ wfail' = TRUE
    /\ UNCHANGED <<cache_file, forcar, df, wpos, requests, prior, fetched, runs,
                   restVars>>

\* the run goes on with the returned dataset, or ends with the exception
Finish(s) ==
    /\ pc[s] \in {"returned", "raised", "stopped"}
    /\ pc' = [pc EXCEPT ![s] = "idle"]
    /\ forcar' = [forcar EXCEPT ![s] = FALSE]
    /\ tries' = [tries EXCEPT ![s] = 0]
    /\ df' = [df EXCEPT ![s] = <<>>]
    /\ wpos' = [wpos EXCEPT ![s] = 0]
    /\ ret' = [ret EXCEPT ![s] = NoRet]
    /\ requests' = [requests EXCEPT ![s] = 0]
    /\ prior' = [prior EXCEPT ![s] = NoFile]
    /\ UNCHANGED <<cache_file, fetched, wfail, runs, restVars>>

CallStep(s) == ReadParquet(s) \/ Get(s) \/ Open(s) \/ WriteBlock(s) \/ WriteFail(s)

NextApi == \E s \in Sessions : Call(s) \/ CallStep(s) \/ Finish(s)

SpecApi == InitApi /\ [][NextApi]_vars

\* the runs of one session alone, one after the other
NextRetry == Call(1) \/ CallStep(1) \/ Finish(1)

\* every statement of a running call completes: the request has a timeout,
\* the sleep is 3 seconds, the file is local
FairRetry == InitApi /\ [][NextRetry]_vars /\ WF_vars(CallStep(1))

-----------------------------------------------------------------------------
(* Conectividade.py: the script runs of one session, one after the other,  *)
(* in one server process (st.cache_data lives as long as the process).     *)
(* The response may be a list or an object whose first list value is the   *)
(* record list; both give the same DataFrame.                              *)

appRest == <<pipeVars, faixaVars, tries, prior>>

\* a script run starts; the button is clicked or not (line 105)
AppRun(s) ==
    /\ pc[s] = "idle"
    /\ runs < MaxRuns
    /\ runs' = runs + 1
    /\ \E click \in BOOLEAN :
          /\ forcar' = [forcar EXCEPT ![s] = click]
          /\ pc' = [pc EXCEPT ![s] = IF click THEN "a_get" ELSE "a_exists"]
    /\ UNCHANGED <<cache_file, df, wpos, ret, requests, fetched, wfail, memo,
                   api_atualizada, appRest>>

\* atualizar_api, lines 51-64; an exception makes it return None (line 72)
AtualizarGet(s) ==
    /\ pc[s] = "a_get"
    /\ requests' = [requests EXCEPT ![s] = @ + 1]
    /\ \/ \E d \in 1..NumPayloads :
             /\ df' = [df EXCEPT ![s] = Payload(d)]
             /\ fetched' = fetched \cup {Payload(d)}
             /\ pc' = [pc EXCEPT ![s] = "a_open"]
       \/ /\ pc' = [pc EXCEPT ![s] = "a_exists"]
          /\ UNCHANGED <<df, fetched>>
    /\ UNCHANGED <<cache_file, forcar, wpos, ret, wfail, memo, runs, api_atualizada,
                   appRest>>

\* df.to_csv(CAMINHO_CACHE): the file is opened for writing
AtualizarOpen(s) ==
    /\ pc[s] = "a_open"
    /\ \/ /\ cache_file' = Snapshot(<<>>)
          /\ wpos' = [wpos EXCEPT ![s] = 0]
          /\ pc' = [pc EXCEPT ![s] = "a_write"]
          /\ UNCHANGED <<df, wfail>>
       \/ /\ pc' = [pc EXCEPT ![s] = "a_exists"]
          /\ df' = [df EXCEPT ![s] = <<>>]
          /\ wfail' = TRUE
          /\ UNCHANGED <<cache_file, wpos>>
    /\ UNCHANGED <<forcar, ret, requests, fetched, memo, runs, api_atualizada, appRest>>

\* one block of to_csv; after the last one atualizar_api returns df and the
\* script sets st.session_state["api_atualizada"] (lines 67-68, 107-108)
AtualizarWrite(s) ==
    /\ pc[s] = "a_write"
    /\ cache_file' = Snapshot(WriteAt(cache_file.data, wpos[s] + 1, df[s][wpos[s] + 1]))
    /\ wpos' = [wpos EXCEPT ![s] = @ + 1]
    /\ IF wpos[s] + 1 = BlocksPerFile
       THEN /\ pc' = [pc EXCEPT ![s] = "a_exists"]
            /\ api_atualizada' = [api_atualizada EXCEPT ![s] = TRUE]
       ELSE UNCHANGED <<pc, api_atualizada>>
    /\ UNCHANGED <<forcar, df, ret, requests, fetched, wfail, memo, runs, appRest>>

\* to_csv raises part way: atualizar_api returns None, the file keeps what was written
AtualizarWriteFail(s) ==
    /\ pc[s] = "a_write"
    /\ pc' = [pc EXCEPT ![s] = "a_exists"]
    /\ df' = [df EXCEPT ![s] = <<>>]
    /\ wfail' = TRUE
    /\ UNCHANGED <<cache_file, forcar, wpos, ret, requests, fetched, memo, runs,
                   api_atualizada, appRest>>

\* if not CAMINHO_CACHE.exists(): st.stop()
ExistsCheck(s) ==
    /\ pc[s] = "a_exists"
    /\ pc' = [pc EXCEPT ![s] = IF cache_file.exists THEN "a_load" ELSE "stopped"]
    /\ UNCHANGED <<cache_file, forcar, df, wpos, ret, requests, fetched, wfail, memo,
                   runs, api_atualizada, appRest>>

\* @st.cache_data carregar_cache(): the stored value if there is one, else
\* pd.read_csv of the file as it is
carregar_cache(m, file) == IF m # <<>> THEN RetDf(m) ELSE RetDf(file.data)

\* df_api = carregar_cache(); the run then computes the coverage from df_api.
\* read_csv of an empty file raises, and nothing is stored
CarregarCache(s) ==
    /\ pc[s] = "a_load"
    /\ IF memo = <<>> /\ cache_file.data = <<>>
       THEN /\ ret' = [ret EXCEPT ![s] = RetErr("EmptyDataError")]
            /\ pc' = [pc EXCEPT ![s] = "raised"]
            /\ memo' = memo
       ELSE /\ ret' = [ret EXCEPT ![s] = carregar_cache(memo, cache_file)]
            /\ memo' = ret'[s].df
            /\ pc' = [pc EXCEPT ![s] = "returned"]
    /\ UNCHANGED <<cache_file, forcar, df, wpos, requests, fetched, wfail, runs,
                   api_atualizada, appRest>>

NextApp ==
    \/ AppRun(1) \/ AtualizarGet(1) \/ AtualizarOpen(1) \/ AtualizarWrite(1)
    \/ AtualizarWriteFail(1) \/ ExistsCheck(1) \/ CarregarCache(1) \/ Finish(1)

SpecApp == InitApi /\ [][NextApp]_vars

-----------------------------------------------------------------------------
(* C3: a municipality whose code is not a key of the registry is no row of *)
(* df_mun, none of its school rows is in base, and every count of df_mun   *)
(* is the count of the eligible schools of that registry municipality only *)

RegistryKeys == {Strip(adesoes[k].co_municipio) : k \in DOMAIN adesoes}

EligibleRaw(i) ==
    df_api[i].tp_dependencia = Municipal /\ df_api[i].in_internet = Sim

SchoolsOf(m, activeOnly) ==
    {df_api[i].co_entidade :
        i \in {k \in DOMAIN df_api :
                 /\ Strip(df_api[k].co_municipio) = m
                 /\ EligibleRaw(k)
                 /\ (activeOnly => df_api[k].status = ativo)}}

\* C3: no df_mun row, base row or count comes from a municipality that is not a registry key
C3_RegistryExclusion ==
    stage = "done" =>
        /\ \A r \in df_mun : r.co_municipio \in RegistryKeys
        /\ \A i \in DOMAIN base : base[i].co_municipio \in RegistryKeys
        /\ \A r \in df_mun :
              /\ r.Qtd_Escolas = Cardinality(SchoolsOf(r.co_municipio, FALSE))
              /\ r.Qtd_Escolas_Ativas = Cardinality(SchoolsOf(r.co_municipio, TRUE))
        /\ Cardinality(df_mun) <= Cardinality(RegistryKeys)

\* C3 witness: an eligible active school of a municipality outside the registry, and a non-empty df_mun
C3_Witness ==
    /\ stage = "done"
    /\ df_mun # {}
    /\ \E i \in DOMAIN df_api :
          /\ EligibleRaw(i)
          /\ df_api[i].status = ativo
          /\ Strip(df_api[i].co_municipio) \notin RegistryKeys

-----------------------------------------------------------------------------
(* C4: the bracket of a ratio, stated by its bounds *)

\* C4: the label faixa gives is the one bracket whose inclusive lower bound the ratio reaches
C4_TierBrackets ==
    Faixa_Cobertura # "none" =>
        LET a == Qtd_Escolas_Ativas
            t == Qtd_Escolas
        IN  /\ Faixa_Cobertura \in {"100%", "80% - 99%", "70% - 79%", "50% - 69%", "<50%", "0%"}
            /\ (Faixa_Cobertura = "100%") <=> (a = t)
            /\ (Faixa_Cobertura = "80% - 99%") <=> (10 * a >= 8 * t /\ a < t)
            /\ (Faixa_Cobertura = "70% - 79%") <=> (10 * a >= 7 * t /\ 10 * a < 8 * t)
            /\ (Faixa_Cobertura = "50% - 69%") <=> (10 * a >= 5 * t /\ 10 * a < 7 * t)
            /\ (Faixa_Cobertura = "<50%") <=> (a > 0 /\ 10 * a < 5 * t)
            /\ (Faixa_Cobertura = "0%") <=> (a = 0)

\* C4 witness: 7 active of 10 is labelled 70% - 79%
C4_Witness ==
    /\ Qtd_Escolas = 10 /\ Qtd_Escolas_Ativas = 7
    /\ Faixa_Cobertura = "70% - 79%"

-----------------------------------------------------------------------------
(* C1: in both aggregation paths a school key with several eligible rows is *)
(* counted once in its municipality's total, and in the active count if    *)
(* and only if at least one of its rows is active, whatever the row order  *)

\* Conectividade.py path: the eligible rows of municipality m (df_api holds the
\* normalised columns once the block has run)
ConEligible(m) ==
    {i \in DOMAIN df_api :
        /\ df_api[i].co_municipio = m
        /\ Contains(df_api[i].tp_dependencia_norm, MUNICIPAL)
        /\ df_api[i].in_internet_norm = SIM}

ConKeys(m) == {df_api[i].co_entidade : i \in ConEligible(m)}

ConActiveKeys(m) ==
    {df_api[i].co_entidade : i \in {k \in ConEligible(m) : df_api[k].status_norm = ATIVO}}

OneRegistryRow(m) ==
    Cardinality({k \in DOMAIN df_lista : df_lista[k].co_municipio = m}) = 1

\* C1: each school counted once, and as active iff one of its eligible rows is active
C1_AtLeastOneActive ==
    /\ \A r \in df_mun :
          /\ r.Qtd_Escolas = Cardinality(SchoolsOf(r.co_municipio, FALSE))
          /\ r.Qtd_Escolas_Ativas = Cardinality(SchoolsOf(r.co_municipio, TRUE))
    /\ \A r \in temp :
          OneRegistryRow(r.co_municipio) =>
              /\ r.total_escolas = Cardinality(ConKeys(r.co_municipio))
              /\ r.escolas_ativas = Cardinality(ConActiveKeys(r.co_municipio))

-----------------------------------------------------------------------------
(* C2: in every row of either per-municipality table the active count lies *)
(* between 0 and the total, whatever the registry file holds               *)

\* C2: 0 <= active count <= total in every row of temp and of df_mun
C2_ActiveWithinTotal ==
    /\ \A r \in temp : 0 <= r.escolas_ativas /\ r.escolas_ativas <= r.total_escolas
    /\ \A r \in df_mun : 0 <= r.Qtd_Escolas_Ativas /\ r.Qtd_Escolas_Ativas <= r.Qtd_Escolas

-----------------------------------------------------------------------------
(* C5: in the Conectividade.py path only a row whose raw labels are the    *)
(* recognised ones (up to case) is counted as an eligible or active school *)

RecognizedMunicipal(l) == Upper(Strip(l)) = MUNICIPAL
RecognizedInternet(l) == Upper(Strip(l)) \in {SIM, YES, Y, TRUE_}
RecognizedActive(l) == Upper(Strip(l)) \in {ATIVO, INSTALADO, INSTALLED, ACTIVE, TRUE_}

\* C5: every counted row has the recognised municipal and internet labels, and an active one a listed status
C5_SafeDefault ==
    \A i \in DOMAIN df_final :
        /\ RecognizedMunicipal(df_final[i].tp_dependencia)
        /\ RecognizedInternet(df_final[i].in_internet)
        /\ (df_final[i].status_norm = ATIVO => RecognizedActive(df_final[i].status))

-----------------------------------------------------------------------------
(* C6: a call of carregar_api that goes to the network issues at most      *)
(* RETRIES requests, issues one only while every earlier attempt of the    *)
(* call has failed, returns the whole dataset of the attempt that succeeds,*)
(* raises only after RETRIES failed attempts, and always terminates        *)

ToNetwork(s) == forcar[s] \/ ~prior[s].exists

InCall(s) == pc[s] \in {"read", "get", "open", "write"}

C6_Bounded(s) ==
    /\ requests[s] <= RETRIES
    /\ pc[s] = "get" => (tries[s] < RETRIES /\ requests[s] = tries[s])
    /\ pc[s] \in {"open", "write"} => requests[s] = tries[s] + 1
    /\ (pc[s] = "raised" /\ ToNetwork(s)) =>
          /\ ret[s] = RetErr("RuntimeError")
          /\ tries[s] = RETRIES /\ requests[s] = RETRIES
    /\ (pc[s] = "returned" /\ ToNetwork(s)) =>
          /\ ret[s] = RetDf(df[s])
          /\ df[s] \in Payloads
          /\ requests[s] = tries[s] + 1
          /\ tries[s] < RETRIES

\* C6: at most RETRIES requests, each after only failed attempts; whole dataset or RuntimeError; the call ends
C6_BoundedRetry ==
    /\ [](\A s \in Sessions : C6_Bounded(s))
    /\ \A s \in Sessions : InCall(s) ~> pc[s] \in {"returned", "raised"}

\* C6 witness: a call that returned the dataset of its third request after two failed attempts
C6_Witness ==
    \E s \in Sessions :
        /\ pc[s] = "returned" /\ ToNetwork(s)
        /\ requests[s] = RETRIES /\ tries[s] = RETRIES - 1

-----------------------------------------------------------------------------
(* C7: a forced refresh with a prior snapshot whose attempts all fail      *)
(* returns the stale snapshot and leaves the file unchanged; the failure   *)
(* is raised only when there was no prior snapshot                         *)

\* C7: after RETRIES failed attempts the stale snapshot is returned if there was one, else RuntimeError
C7_StaleFallback ==
    \A s \in Sessions :
        (pc[s] \in {"returned", "raised"} /\ ToNetwork(s) /\ tries[s] = RETRIES) =>
            IF prior[s].exists
            THEN ret[s] = RetDf(prior[s].data)
            ELSE ret[s] = RetErr("RuntimeError")

-----------------------------------------------------------------------------
(* C9: a write of the snapshot that fails leaves the whole previous        *)
(* snapshot: while no write is in progress the file is absent or holds one *)
(* whole dataset                                                           *)

Writing(s) == pc[s] = "write"

\* C9: with no write in progress the snapshot file is absent or one whole dataset
C9_AtomicSnapshot ==
    (\A s \in Sessions : ~Writing(s)) =>
        (~cache_file.exists \/ cache_file.data \in Payloads)

-----------------------------------------------------------------------------
(* C10: with concurrent sessions and no failed write, a dataset read from  *)
(* the snapshot is one a request returned in full, and once the writers    *)
(* are done the file is not a mix of two writers' blocks                   *)

FromSnapshot(s) == ~ToNetwork(s) /\ pc[s] \in {"returned", "raised"}

\* C10: without any failed write, reads of the snapshot give a fetched dataset and the file is no mix
C10_NoTornReads ==
    ~wfail =>
        /\ \A s \in Sessions :
              FromSnapshot(s) => (ret[s].kind = "df" /\ ret[s].df \in fetched)
        /\ (\A s \in Sessions : ~Writing(s)) =>
              (~cache_file.exists \/ cache_file.data \in fetched)

-----------------------------------------------------------------------------
(* C8: a run of Conectividade.py in which the refresh succeeds leaves the  *)
(* fetched dataset as the snapshot and computes its coverage from it       *)

Refreshed(s) == forcar[s] /\ df[s] # <<>> /\ wpos[s] = BlocksPerFile

\* C8: after a successful refresh the file holds the fetched dataset and the run loads that dataset
C8_RefreshTakesEffect ==
    \A s \in Sessions :
        (pc[s] \in {"returned", "raised"} /\ Refreshed(s)) =>
            /\ cache_file = Snapshot(df[s])
            /\ ret[s] = RetDf(df[s])

====
